---------------------------- MODULE Spec2Model ----------------------------
(***************************************************************************)
(* graphene_tornado.apollo_tooling.transforms: the AST transforms used to  *)
(* compute a query signature (hide_literals, hide_string_and_numeric_      *)
(* literals, drop_unused_definitions, sort_ast, remove_aliases,            *)
(* print_with_reduced_whitespace), modelled over an explicit GraphQL AST.  *)
(*                                                                         *)
(* Python values are tagged records: None, str (a sequence of code         *)
(* points) and int.  An AST node is a record with a `kind` (the node's     *)
(* class name); a list attribute is a sequence of nodes (the parser always *)
(* produces a list for a list attribute, possibly empty); a NameNode is    *)
(* flattened into the str (or None) it carries.                            *)
(***************************************************************************)
EXTENDS Integers, Sequences, FiniteSets

VARIABLES ast,     \* the document the caller holds (mutated in place by the passes)
          before,  \* the document as it was when the last call started
          op,      \* the transform called last ("init" before any call)
          arg,     \* the operation_name argument of the last drop_unused_definitions
          ret,     \* what the last call returned (None when it raised)
          exc,     \* the exception the last call raised, or None
          calls    \* number of calls made so far

vars == <<ast, before, op, arg, ret, exc, calls>>

(* ------------------------------ bounds -------------------------------- *)

\* Calls a caller chains on one document.
MaxCalls == 1

(* --------------------------- Python values ---------------------------- *)

None == [ty |-> "NoneType"]
Str(s) == [ty |-> "str", s |-> s]
PyInt(i) == [ty |-> "int", i |-> i]
PyBool(b) == [ty |-> "bool", b |-> b]
TypeError == [ty |-> "TypeError"]
AttributeError == [ty |-> "AttributeError"]

\* The result of an evaluation that may raise: a value and no exception, or an
\* exception (val is then what had been built so far).
Ok(v) == [val |-> v, exc |-> None]
Raise(v, e) == [val |-> v, exc |-> e]

(* ----------------------------- AST nodes ------------------------------ *)

Document(defs) == [kind |-> "DocumentNode", definitions |-> defs]
SelectionSet(sels) == [kind |-> "SelectionSetNode", selections |-> sels]
NamedType(n) == [kind |-> "NamedTypeNode", name |-> Str(n)]
Variable(n) == [kind |-> "VariableNode", name |-> Str(n)]
OperationDefinition(name, vdefs, dirs, sels) ==
    [kind |-> "OperationDefinitionNode", name |-> name,
     variable_definitions |-> vdefs, directives |-> dirs,
     selection_set |-> SelectionSet(sels)]
VariableDefinition(n, t, dflt) ==
    [kind |-> "VariableDefinitionNode", variable |-> Variable(n),
     type |-> NamedType(t), default_value |-> dflt, directives |-> <<>>]
FragmentDefinition(n, t, dirs, sels) ==
    [kind |-> "FragmentDefinitionNode", name |-> Str(n),
     type_condition |-> NamedType(t), directives |-> dirs,
     selection_set |-> SelectionSet(sels)]
Field(alias, n, args, dirs, selset) ==
    [kind |-> "FieldNode", alias |-> alias, name |-> Str(n),
     arguments |-> args, directives |-> dirs, selection_set |-> selset]
FragmentSpread(n, dirs) ==
    [kind |-> "FragmentSpreadNode", name |-> Str(n), directives |-> dirs]
InlineFragment(tc, dirs, sels) ==
    [kind |-> "InlineFragmentNode", type_condition |-> tc,
     directives |-> dirs, selection_set |-> SelectionSet(sels)]
Directive(n, args) ==
    [kind |-> "DirectiveNode", name |-> Str(n), arguments |-> args]
Argument(n, v) == [kind |-> "ArgumentNode", name |-> Str(n), value |-> v]
IntValue(s) == [kind |-> "IntValueNode", value |-> Str(s)]
FloatValue(s) == [kind |-> "FloatValueNode", value |-> Str(s)]
StringValue(s) == [kind |-> "StringValueNode", value |-> Str(s)]
EnumValue(s) == [kind |-> "EnumValueNode", value |-> Str(s)]
BooleanValue(b) == [kind |-> "BooleanValueNode", value |-> PyBool(b)]
NullValue == [kind |-> "NullValueNode"]
ListValue(vs) == [kind |-> "ListValueNode", values |-> vs]
ObjectValue(fs) == [kind |-> "ObjectValueNode", fields |-> fs]
ObjectField(n, v) == [kind |-> "ObjectFieldNode", name |-> Str(n), value |-> v]

(* ------------------------------- visit -------------------------------- *)

Key(k, isList) == [key |-> k, list |-> isList]

\* The child attributes visit() descends into, per node kind, in order
\* (NameNode children are flattened away).
VisitorKeys(kind) ==
    CASE kind = "DocumentNode" -> <<Key("definitions", TRUE)>>
      [] kind = "OperationDefinitionNode" ->
            <<Key("variable_definitions", TRUE), Key("directives", TRUE),
              Key("selection_set", FALSE)>>
      [] kind = "VariableDefinitionNode" ->
            <<Key("variable", FALSE), Key("type", FALSE),
              Key("default_value", FALSE), Key("directives", TRUE)>>
      [] kind = "SelectionSetNode" -> <<Key("selections", TRUE)>>
      [] kind = "FieldNode" ->
            <<Key("arguments", TRUE), Key("directives", TRUE),
              Key("selection_set", FALSE)>>
      [] kind = "ArgumentNode" -> <<Key("value", FALSE)>>
      [] kind = "FragmentSpreadNode" -> <<Key("directives", TRUE)>>
      [] kind = "InlineFragmentNode" ->
            <<Key("type_condition", FALSE), Key("directives", TRUE),
              Key("selection_set", FALSE)>>
      [] kind = "FragmentDefinitionNode" ->
            <<Key("type_condition", FALSE), Key("directives", TRUE),
              Key("selection_set", FALSE)>>
      [] kind = "DirectiveNode" -> <<Key("arguments", TRUE)>>
      [] kind = "ListValueNode" -> <<Key("values", TRUE)>>
      [] kind = "ObjectValueNode" -> <<Key("fields", TRUE)>>
      [] kind = "ObjectFieldNode" -> <<Key("value", FALSE)>>
      [] OTHER -> <<>>

(* ------------------------- _HideLiteralsVisitor ----------------------- *)

\* HideLiteralsEnter with the mode test inverted.
HideLiteralsEnter_Inverted(only_string_and_numeric, node) ==
    IF node.kind = "IntValueNode" THEN [node EXCEPT !.value = PyInt(0)]
    ELSE IF node.kind = "FloatValueNode" THEN [node EXCEPT !.value = PyInt(0)]
    ELSE IF node.kind = "StringValueNode" THEN [node EXCEPT !.value = Str(<<>>)]
    ELSE IF only_string_and_numeric /\ node.kind = "ListValueNode"
        THEN [node EXCEPT !.values = <<>>]
    ELSE IF only_string_and_numeric /\ node.kind = "ObjectValueNode"
        THEN [node EXCEPT !.fields = <<>>]
    ELSE node

HideLiteralsEnter(only_string_and_numeric, node) ==
    IF node.kind = "IntValueNode" THEN [node EXCEPT !.value = PyInt(0)]
    ELSE IF node.kind = "FloatValueNode" THEN [node EXCEPT !.value = PyInt(0)]
    ELSE IF node.kind = "StringValueNode" THEN [node EXCEPT !.value = Str(<<>>)]
    ELSE IF ~only_string_and_numeric /\ node.kind = "ListValueNode"
        THEN [node EXCEPT !.values = <<>>]
    ELSE IF ~only_string_and_numeric /\ node.kind = "ObjectValueNode"
        THEN [node EXCEPT !.fields = <<>>]
    ELSE node

(* ------------------------ _RemoveAliasesVisitor ----------------------- *)

\* RemoveAliasesEnter that passes over the fields that have a selection set.
RemoveAliasesEnter_LeavesOnly(node) ==
    IF node.kind = "FieldNode" /\ node.selection_set = None
    THEN [node EXCEPT !.alias = None] ELSE node

RemoveAliasesEnter(node) ==
    IF node.kind = "FieldNode" THEN [node EXCEPT !.alias = None] ELSE node

(* --------------------------- _SortingVisitor -------------------------- *)

\* x.__class__.__name__ of the nodes that occur as definitions or selections.
ClassName(kind) ==
    CASE kind = "FieldNode" -> <<70,105,101,108,100,78,111,100,101>>
      [] kind = "FragmentSpreadNode" ->
            <<70,114,97,103,109,101,110,116,83,112,114,101,97,100,78,111,100,101>>
      [] kind = "InlineFragmentNode" ->
            <<73,110,108,105,110,101,70,114,97,103,109,101,110,116,78,111,100,101>>
      [] kind = "FragmentDefinitionNode" ->
            <<70,114,97,103,109,101,110,116,68,101,102,105,110,105,116,105,111,
              110,78,111,100,101>>
      [] kind = "OperationDefinitionNode" ->
            <<79,112,101,114,97,116,105,111,110,68,101,102,105,110,105,116,105,
              111,110,78,111,100,101>>

HasAttr(node, attr) == attr \in DOMAIN node

_by_type_definition(node) ==
    IF ~HasAttr(node, "type_condition") THEN Raise(None, AttributeError)
    ELSE IF node.type_condition # None THEN Ok(node.type_condition.name)
    ELSE Ok(None)

_by_name(node) ==
    IF node.kind = "InlineFragmentNode" THEN _by_type_definition(node)
    ELSE IF ~HasAttr(node, "name") THEN Raise(None, AttributeError)
    ELSE IF node.name # None THEN Ok(node.name)
    ELSE Ok(None)

_by_variable_name(node) ==
    IF ~HasAttr(node, "variable") THEN Raise(None, AttributeError)
    ELSE IF node.variable # None /\ node.variable.name # None
        THEN Ok(node.variable.name)
    ELSE Ok(None)

\* lambda x: (x.__class__.__name__, self._by_name(x))
ClassAndName(node) ==
    LET n == _by_name(node)
    IN  IF n.exc # None THEN n
        ELSE Ok([ty |-> "tuple", cls |-> ClassName(node.kind), name |-> n.val])

KeyOf(key, node) ==
    CASE key = "class_and_name" -> ClassAndName(node)
      [] key = "_by_name" -> _by_name(node)
      [] key = "_by_type_definition" -> _by_type_definition(node)
      [] key = "_by_variable_name" -> _by_variable_name(node)

\* s < t for two str: by code point, a proper prefix first.
RECURSIVE StrLess(_, _)
StrLess(s, t) ==
    IF t = <<>> THEN FALSE
    ELSE IF s = <<>> THEN TRUE
    ELSE IF Head(s) # Head(t) THEN Head(s) < Head(t)
    ELSE StrLess(Tail(s), Tail(t))

\* x < y on two sort keys, as Python evaluates it: str against str by code
\* point; a tuple against a tuple by its first differing component; None
\* against anything is a TypeError.
PyLess(x, y) ==
    IF x.ty = "tuple" /\ y.ty = "tuple"
    THEN IF x.cls # y.cls THEN Ok(StrLess(x.cls, y.cls))
         ELSE IF x.name = y.name THEN Ok(FALSE)
         ELSE IF x.name.ty = "str" /\ y.name.ty = "str"
              THEN Ok(StrLess(x.name.s, y.name.s))
         ELSE Raise(FALSE, TypeError)
    ELSE IF x.ty = "str" /\ y.ty = "str" THEN Ok(StrLess(x.s, y.s))
    ELSE Raise(FALSE, TypeError)

\* The sort keys of items, computed before any comparison.
RECURSIVE KeysFrom(_, _, _)
KeysFrom(items, key, i) ==
    IF i > Len(items) THEN Ok(<<>>)
    ELSE LET k == KeyOf(key, items[i])
         IN  IF k.exc # None THEN k
             ELSE LET rest == KeysFrom(items, key, i + 1)
                  IN  IF rest.exc # None THEN rest
                      ELSE Ok(<<k.val>> \o rest.val)

\* Where index j goes in the sorted index list `order`: after the last p with
\* ~(keys[j] < keys[order[p]]) (stable).
RECURSIVE InsertPos(_, _, _, _)
InsertPos(keys, order, j, p) ==
    IF p = 0 THEN Ok(0)
    ELSE LET c == PyLess(keys[j], keys[order[p]])
         IN  IF c.exc # None THEN Raise(0, c.exc)
             ELSE IF c.val THEN InsertPos(keys, order, j, p - 1)
             ELSE Ok(p)

RECURSIVE SortFrom(_, _, _)
SortFrom(keys, order, j) ==
    IF j > Len(keys) THEN Ok(order)
    ELSE LET p == InsertPos(keys, order, j, Len(order))
         IN  IF p.exc # None THEN Raise(order, p.exc)
             ELSE SortFrom(keys,
                           SubSeq(order, 1, p.val) \o <<j>>
                               \o SubSeq(order, p.val + 1, Len(order)),
                           j + 1)

\* sorted(items, key=key): a stable sort; raises what a key or a comparison
\* raises.  (Every comparison sort compares some None key with a str key of
\* the same class when both occur, so whether it raises does not depend on
\* the algorithm.)
Ordered(items, o) ==
    IF o.exc # None THEN Raise(items, o.exc)
    ELSE Ok([i \in 1..Len(items) |-> items[o.val[i]]])

SortedByKeys(items, ks) ==
    IF ks.exc # None THEN Raise(items, ks.exc)
    ELSE Ordered(items, SortFrom(ks.val, <<>>, 1))

sorted(items, key) == SortedByKeys(items, KeysFrom(items, key, 1))

\* _sorted that leaves items of equal key in the reverse of their order.
Reverse(items) == [i \in 1..Len(items) |-> items[Len(items) + 1 - i]]
_sorted_Unstable(items, key) == sorted(Reverse(items), key)

\* _sorted(items, key); items is never None here: the parser gives every list
\* attribute a list.
_sorted(items, key) == sorted(items, key)

\* `node.attr = _sorted(node.attr, key)`: the assignment happens only when
\* _sorted returns.
Assigned(node, attr, r) ==
    IF r.exc # None THEN Raise(node, r.exc)
    ELSE Ok([node EXCEPT ![attr] = r.val])

SortAttr(node, attr, key) == Assigned(node, attr, _sorted(node[attr], key))

\* SortingEnter without the FieldNode case.
SortingEnter_NoArguments(node) ==
    IF node.kind = "DocumentNode"
        THEN SortAttr(node, "definitions", "class_and_name")
    ELSE IF node.kind = "OperationDefinitionNode"
        THEN SortAttr(node, "variable_definitions", "_by_variable_name")
    ELSE IF node.kind = "SelectionSetNode"
        THEN SortAttr(node, "selections", "class_and_name")
    ELSE IF node.kind = "FragmentSpreadNode"
        THEN SortAttr(node, "directives", "_by_name")
    ELSE IF node.kind = "InlineFragmentNode"
        THEN SortAttr(node, "directives", "_by_type_definition")
    ELSE IF node.kind = "FragmentDefinitionNode"
        THEN SortAttr(node, "directives", "_by_name")
    ELSE IF node.kind = "DirectiveNode"
        THEN SortAttr(node, "arguments", "_by_name")
    ELSE Ok(node)

SortingEnter(node) ==
    IF node.kind = "DocumentNode"
        THEN SortAttr(node, "definitions", "class_and_name")
    ELSE IF node.kind = "OperationDefinitionNode"
        THEN SortAttr(node, "variable_definitions", "_by_variable_name")
    ELSE IF node.kind = "SelectionSetNode"
        THEN SortAttr(node, "selections", "class_and_name")
    ELSE IF node.kind = "FieldNode"
        THEN SortAttr(node, "arguments", "_by_name")
    ELSE IF node.kind = "FragmentSpreadNode"
        THEN SortAttr(node, "directives", "_by_name")
    ELSE IF node.kind = "InlineFragmentNode"
        THEN SortAttr(node, "directives", "_by_type_definition")
    ELSE IF node.kind = "FragmentDefinitionNode"
        THEN SortAttr(node, "directives", "_by_name")
    ELSE IF node.kind = "DirectiveNode"
        THEN SortAttr(node, "arguments", "_by_name")
    ELSE Ok(node)

(* --------------------------- hex and UTF-8 ---------------------------- *)

\* One hexadecimal digit (0-9, a-f) as a code point, and back.
HexDigit(n) == IF n < 10 THEN 48 + n ELSE 87 + n
HexValue(c) == IF c <= 57 THEN c - 48 ELSE c - 87

\* str.encode("utf-8") of one code point.
Utf8(cp) ==
    IF cp < 128 THEN <<cp>>
    ELSE IF cp < 2048 THEN <<192 + (cp \div 64), 128 + (cp % 64)>>
    ELSE IF cp < 65536
        THEN <<224 + (cp \div 4096), 128 + ((cp \div 64) % 64), 128 + (cp % 64)>>
    ELSE <<240 + (cp \div 262144), 128 + ((cp \div 4096) % 64),
           128 + ((cp \div 64) % 64), 128 + (cp % 64)>>

RECURSIVE HexOfBytes(_)
HexOfBytes(bytes) ==
    IF bytes = <<>> THEN <<>>
    ELSE <<HexDigit(Head(bytes) \div 16), HexDigit(Head(bytes) % 16)>>
             \o HexOfBytes(Tail(bytes))

(* ------------------------------ text scans ---------------------------- *)

\* A left-to-right pass over a text t (str.replace, re.sub, a character-wise
\* encoding): Step(pass, t, i, st) is what the pass emits at index i in scan
\* state st (skip: the last index an earlier match consumed; exc: raised so
\* far) and the state it leaves.  Scan splits the range in two so that the
\* evaluation is not nested once per character.
Emit(out, st) == [out |-> out, st |-> st]
ScanStart == [skip |-> 0, exc |-> None]

\* bytes.fromhex(m)
RECURSIVE BytesFromHex(_)
BytesFromHex(m) ==
    IF m = <<>> THEN <<>>
    ELSE <<16 * HexValue(m[1]) + HexValue(m[2])>> \o BytesFromHex(Tail(Tail(m)))

IsCont(bytes, i) == i <= Len(bytes) /\ bytes[i] \in 128..191

\* bytes.decode("utf-8"); the exception when the bytes are not UTF-8.
RECURSIVE Utf8Decode(_)
Utf8Decode(bytes) ==
    IF bytes = <<>> THEN Ok(<<>>)
    ELSE LET b0 == bytes[1]
             n == IF b0 < 128 THEN 1
                  ELSE IF b0 \in 194..223 /\ IsCont(bytes, 2) THEN 2
                  ELSE IF b0 \in 224..239 /\ IsCont(bytes, 2) /\ IsCont(bytes, 3)
                      THEN 3
                  ELSE IF b0 \in 240..244 /\ IsCont(bytes, 2) /\ IsCont(bytes, 3)
                          /\ IsCont(bytes, 4) THEN 4
                  ELSE 0
             cp == CASE n = 1 -> b0
                     [] n = 2 -> (b0 - 192) * 64 + (bytes[2] - 128)
                     [] n = 3 -> (b0 - 224) * 4096 + (bytes[2] - 128) * 64
                                     + (bytes[3] - 128)
                     [] n = 4 -> (b0 - 240) * 262144 + (bytes[2] - 128) * 4096
                                     + (bytes[3] - 128) * 64 + (bytes[4] - 128)
                     [] OTHER -> 0
         IN  IF n = 0 THEN Raise(<<>>, [ty |-> "UnicodeDecodeError"])
             ELSE LET rest == Utf8Decode(SubSeq(bytes, n + 1, Len(bytes)))
                  IN  IF rest.exc # None THEN rest ELSE Ok(<<cp>> \o rest.val)

\* _from_hex(match): the match's hexadecimal digits decoded and put back
\* between double quotes, as they are.
_from_hex(m) ==
    IF Len(m) % 2 = 1 THEN Raise(<<>>, [ty |-> "ValueError"])
    ELSE LET d == Utf8Decode(BytesFromHex(m))
         IN  IF d.exc # None THEN d ELSE Ok(<<34>> \o d.val \o <<34>>)

IsSpace(c) == c \in {9, 10, 11, 12, 13, 32}
IsWord(c) == c = 95 \/ c \in 48..57 \/ c \in 65..90 \/ c \in 97..122
IsHex(c) == c \in 48..57 \/ c \in 97..102

\* The end of the run of [a-f0-9] that starts at i (i - 1 when there is none).
RECURSIVE HexRunEnd(_, _)
HexRunEnd(t, i) ==
    IF i <= Len(t) /\ IsHex(t[i]) THEN HexRunEnd(t, i + 1) ELSE i - 1

\* value.encode("utf-8").hex(), at one character.
HexStep(t, i, st) == Emit(HexOfBytes(Utf8(t[i])), st)

\* string.replace("\n", "\n  "), at one character.
IndentStep(t, i, st) ==
    Emit(IF t[i] = 10 THEN <<10, 32, 32>> ELSE <<t[i]>>, st)

\* re.sub(r"\s+", " ", t): a run of whitespace gives one space, at its start.
CollapseStep(t, i, st) ==
    Emit(IF ~IsSpace(t[i]) THEN <<t[i]>>
         ELSE IF i > 1 /\ IsSpace(t[i - 1]) THEN <<>>
         ELSE <<32>>, st)

\* re.sub(r"([^_a-zA-Z0-9]) ", _replace_with_first_group, t)
DropSpaceAfterStep(t, i, st) ==
    IF i <= st.skip THEN Emit(<<>>, st)
    ELSE IF ~IsWord(t[i]) /\ i < Len(t) /\ t[i + 1] = 32
        THEN Emit(<<t[i]>>, [st EXCEPT !.skip = i + 1])
    ELSE Emit(<<t[i]>>, st)

\* re.sub(r" ([^_a-zA-Z0-9])", _replace_with_first_group, t)
DropSpaceBeforeStep(t, i, st) ==
    IF i <= st.skip THEN Emit(<<>>, st)
    ELSE IF t[i] = 32 /\ i < Len(t) /\ ~IsWord(t[i + 1])
        THEN Emit(<<t[i + 1]>>, [st EXCEPT !.skip = i + 1])
    ELSE Emit(<<t[i]>>, st)

\* re.sub(r'"([a-f0-9]+)"', _from_hex, t)
FromHexStep(t, i, st) ==
    IF i <= st.skip \/ st.exc # None THEN Emit(<<>>, st)
    ELSE LET j == HexRunEnd(t, i + 1)
             hit == t[i] = 34 /\ j > i /\ j < Len(t) /\ t[j + 1] = 34
             r == _from_hex(SubSeq(t, i + 1, j))
         IN  IF ~hit THEN Emit(<<t[i]>>, st)
             ELSE IF r.exc # None THEN Emit(<<>>, [st EXCEPT !.exc = r.exc])
             ELSE Emit(r.val, [st EXCEPT !.skip = j + 1])

Step(pass, t, i, st) ==
    CASE pass = "hex" -> HexStep(t, i, st)
      [] pass = "indent" -> IndentStep(t, i, st)
      [] pass = "collapse" -> CollapseStep(t, i, st)
      [] pass = "drop_space_after" -> DropSpaceAfterStep(t, i, st)
      [] pass = "drop_space_before" -> DropSpaceBeforeStep(t, i, st)
      [] pass = "from_hex" -> FromHexStep(t, i, st)

RECURSIVE Scan(_, _, _, _, _)
Scan(pass, t, lo, hi, st) ==
    IF lo > hi THEN Emit(<<>>, st)
    ELSE IF lo = hi THEN Step(pass, t, lo, st)
    ELSE LET mid == (lo + hi) \div 2
             l == Scan(pass, t, lo, mid, st)
             r == Scan(pass, t, mid + 1, hi, l.st)
         IN  Emit(l.out \o r.out, r.st)

Sub(pass, t) == Scan(pass, t, 1, Len(t), ScanStart).out

HexEncode(value) == Sub("hex", value)
IndentLines(t) == Sub("indent", t)

(* ------------------------ _HexConversionVisitor ----------------------- *)

HexConversionEnter(node) ==
    IF node.kind = "StringValueNode" /\ node.value # None
    THEN [node EXCEPT !.value = Str(HexEncode(node.value.s))]
    ELSE node

(* ------------------------------ print_ast ----------------------------- *)

Falsy(x) == x = Str(<<>>) \/ x = PyInt(0) \/ x = None

\* str(x), as an f-string formats a printed child: a masked number is the
\* int 0.
Fmt(x) == IF x.ty = "int" THEN <<48>> ELSE x.s

\* join(strings, separator): the falsy ones are dropped.
RECURSIVE join(_, _)
join(strings, separator) ==
    IF strings = <<>> THEN <<>>
    ELSE LET rest == join(Tail(strings), separator)
         IN  IF Falsy(Head(strings)) THEN rest
             ELSE IF rest = <<>> THEN Head(strings).s
             ELSE Head(strings).s \o separator \o rest

\* wrap(start, string, end)
wrap(start, string, end) ==
    IF Falsy(string) THEN <<>> ELSE start \o Fmt(string) \o end

indent(t) == wrap(<<32, 32>>, Str(IndentLines(t)), <<>>)

block(strings) ==
    wrap(<<123, 10>>, Str(indent(join(strings, <<10>>))), <<10, 125>>)

\* print_ast's visitor: what leave() makes of a node, given its children
\* already printed.  All operations here are queries; a string value holds
\* hexadecimal digits when this runs, which print_string leaves as they are;
\* no field line reaches MAX_LINE_LENGTH.
RECURSIVE PrintNode(_)
PrintAll(nodes) == [i \in 1..Len(nodes) |-> PrintNode(nodes[i])]
PrintOpt(node) == IF node = None THEN None ELSE PrintNode(node)
PrintNode(node) ==
    LET k == node.kind
        cm == <<44, 32>>
        sp == <<32>>
    IN
    CASE k = "DocumentNode" ->
            Str(join(PrintAll(node.definitions), <<10, 10>>))
      [] k = "OperationDefinitionNode" ->
            LET var_defs == wrap(<<40>>,
                                 Str(join(PrintAll(node.variable_definitions), cm)),
                                 <<41>>)
                prefix == join(<<Str(<<113,117,101,114,121>>),
                                 Str(join(<<node.name, Str(var_defs)>>, <<>>)),
                                 Str(join(PrintAll(node.directives), sp))>>, sp)
            IN  Str((IF prefix = <<113,117,101,114,121>> THEN <<>>
                     ELSE prefix \o sp) \o PrintNode(node.selection_set).s)
      [] k = "VariableDefinitionNode" ->
            Str(Fmt(PrintNode(node.variable)) \o <<58, 32>>
                \o Fmt(PrintNode(node.type))
                \o wrap(<<32, 61, 32>>, PrintOpt(node.default_value), <<>>)
                \o wrap(sp, Str(join(PrintAll(node.directives), sp)), <<>>))
      [] k = "VariableNode" -> Str(<<36>> \o node.name.s)
      [] k = "NamedTypeNode" -> node.name
      [] k = "SelectionSetNode" -> Str(block(PrintAll(node.selections)))
      [] k = "FieldNode" ->
            LET prefix == wrap(<<>>, node.alias, <<58, 32>>) \o node.name.s
                args_line == prefix \o wrap(<<40>>,
                                            Str(join(PrintAll(node.arguments), cm)),
                                            <<41>>)
            IN  Str(join(<<Str(args_line),
                           Str(join(PrintAll(node.directives), sp)),
                           PrintOpt(node.selection_set)>>, sp))
      [] k = "ArgumentNode" ->
            Str(node.name.s \o <<58, 32>> \o Fmt(PrintNode(node.value)))
      [] k = "FragmentSpreadNode" ->
            Str(<<46, 46, 46>> \o node.name.s
                \o wrap(sp, Str(join(PrintAll(node.directives), sp)), <<>>))
      [] k = "InlineFragmentNode" ->
            Str(join(<<Str(<<46, 46, 46>>),
                       Str(wrap(<<111, 110, 32>>, PrintOpt(node.type_condition), <<>>)),
                       Str(join(PrintAll(node.directives), sp)),
                       PrintNode(node.selection_set)>>, sp))
      [] k = "FragmentDefinitionNode" ->
            Str(<<102,114,97,103,109,101,110,116, 32>> \o node.name.s
                \o <<32, 111, 110, 32>> \o Fmt(PrintNode(node.type_condition)) \o sp
                \o wrap(<<>>, Str(join(PrintAll(node.directives), sp)), sp)
                \o PrintNode(node.selection_set).s)
      [] k = "DirectiveNode" ->
            Str(<<64>> \o node.name.s
                \o wrap(<<40>>, Str(join(PrintAll(node.arguments), cm)), <<41>>))
      [] k = "IntValueNode" -> node.value
      [] k = "FloatValueNode" -> node.value
      [] k = "StringValueNode" -> Str(<<34>> \o node.value.s \o <<34>>)
      [] k = "BooleanValueNode" ->
            IF node.value.b THEN Str(<<116,114,117,101>>)
            ELSE Str(<<102,97,108,115,101>>)
      [] k = "NullValueNode" -> Str(<<110,117,108,108>>)
      [] k = "EnumValueNode" -> node.value
      [] k = "ListValueNode" ->
            Str(<<91>> \o join(PrintAll(node.values), cm) \o <<93>>)
      [] k = "ObjectValueNode" ->
            Str(<<123>> \o join(PrintAll(node.fields), cm) \o <<125>>)
      [] k = "ObjectFieldNode" ->
            Str(node.name.s \o <<58, 32>> \o Fmt(PrintNode(node.value)))

print_ast(doc) == PrintNode(doc).s

(* --------------------------- the visitors ----------------------------- *)

\* enter() of the module-level visitor singleton `visitor` on `node`: the node
\* as mutated in place, or the exception enter raised.
Enter(visitor, node) ==
    CASE visitor = "_HIDE_LITERALS_VISITOR" -> Ok(HideLiteralsEnter(FALSE, node))
      [] visitor = "_HIDE_ONLY_STRING_AND_NUMERIC_LITERALS_VISITOR" ->
            Ok(HideLiteralsEnter(TRUE, node))
      [] visitor = "_REMOVE_ALIAS_VISITOR" -> Ok(RemoveAliasesEnter(node))
      [] visitor = "_SORTING_VISITOR" -> SortingEnter(node)
      [] visitor = "_HEX_CONVERSION_VISITOR" -> Ok(HexConversionEnter(node))

RECURSIVE visit(_, _), VisitKeysFrom(_, _, _, _), VisitListFrom(_, _, _)

\* The traversal below a node, e being what enter gave for it.
VisitChildren(e, visitor) ==
    IF e.exc # None THEN e
    ELSE VisitKeysFrom(e.val, VisitorKeys(e.val.kind), 1, visitor)

\* visit(node, visitor): depth first, enter() on a node before its children;
\* every enter returns the node it was given, so the traversal continues into
\* the node's attributes as enter left them.  The value is the tree as mutated
\* in place, up to the point where an enter raised.
visit(node, visitor) == VisitChildren(Enter(visitor, node), visitor)

VisitChild(child, isList, visitor) ==
    IF isList THEN VisitListFrom(child, 1, visitor)
    ELSE IF child = None THEN Ok(None)
    ELSE visit(child, visitor)

\* The attributes after keys[i], r being the visit of attribute keys[i].
VisitKeysNext(node, keys, i, visitor, r) ==
    IF r.exc # None THEN Raise([node EXCEPT ![keys[i].key] = r.val], r.exc)
    ELSE VisitKeysFrom([node EXCEPT ![keys[i].key] = r.val], keys, i + 1, visitor)

VisitKeysFrom(node, keys, i, visitor) ==
    IF i > Len(keys) THEN Ok(node)
    ELSE VisitKeysNext(node, keys, i, visitor,
                       VisitChild(node[keys[i].key], keys[i].list, visitor))

\* The elements after list[i], r being the visit of list[i].
VisitListNext(list, i, visitor, r) ==
    IF r.exc # None THEN Raise([list EXCEPT ![i] = r.val], r.exc)
    ELSE VisitListFrom([list EXCEPT ![i] = r.val], i + 1, visitor)

VisitListFrom(list, i, visitor) ==
    IF i > Len(list) THEN Ok(list)
    ELSE VisitListNext(list, i, visitor, visit(list[i], visitor))

(* ------------------------- separate_operations ------------------------ *)

\* The child nodes of a node, in visiting order.
RECURSIVE ChildrenFrom(_, _, _)
ChildrenFrom(node, keys, i) ==
    IF i > Len(keys) THEN <<>>
    ELSE LET k == keys[i]
             c == node[k.key]
         IN  (IF k.list THEN c ELSE IF c = None THEN <<>> ELSE <<c>>)
                 \o ChildrenFrom(node, keys, i + 1)

Children(node) == ChildrenFrom(node, VisitorKeys(node.kind), 1)

\* collect_dependencies: the names of the fragments spread anywhere in a
\* selection set.
RECURSIVE collect_dependencies(_)
collect_dependencies(node) ==
    IF node.kind = "FragmentSpreadNode" THEN {node.name.s}
    ELSE LET cs == Children(node)
         IN  UNION {collect_dependencies(cs[i]) : i \in 1..Len(cs)}

IsFragment(d) == d.kind = "FragmentDefinitionNode"
IsOperation(d) == d.kind = "OperationDefinitionNode"

Last(S) == CHOOSE i \in S : \A j \in S : j <= i

\* dep_graph: each defined fragment's direct dependencies (a dict: the last
\* definition of a name is the one kept); {} stands for a dict miss as well.
dep_graph(defs, name) ==
    LET at == {i \in 1..Len(defs) : IsFragment(defs[i]) /\ defs[i].name.s = name}
    IN  IF at = {} THEN {} ELSE collect_dependencies(defs[Last(at)].selection_set)

\* collect_transitive_dependencies, from every name of `todo`: a name already
\* collected is not followed again, so a cycle of fragments ends.
\* collect_transitive_dependencies that stops at the direct dependencies.
collect_transitive_dependencies_Direct(collected, defs, todo) ==
    collected \cup todo

RECURSIVE collect_transitive_dependencies(_, _, _)
collect_transitive_dependencies(collected, defs, todo) ==
    LET new == todo \ collected
    IN  IF new = {} THEN collected
        ELSE collect_transitive_dependencies(
                 collected \cup new, defs,
                 UNION {dep_graph(defs, n) : n \in new})

\* The document separate_operations builds for the operation at index i: that
\* operation and the fragments it depends on, in the document's order.
Separated(defs, i) ==
    LET dependencies ==
            collect_transitive_dependencies(
                {}, defs, collect_dependencies(defs[i].selection_set))
        keep == {j \in 1..Len(defs) :
                    j = i \/ (IsFragment(defs[j]) /\ defs[j].name.s \in dependencies)}
        Pick[j \in 0..Len(defs)] ==
            IF j = 0 THEN <<>>
            ELSE IF j \in keep THEN Append(Pick[j - 1], defs[j])
            ELSE Pick[j - 1]
    IN  Document(Pick[Len(defs)])

\* The key of an operation in the dict separate_operations returns: its name,
\* "" for an anonymous operation.
OperationKey(d) == IF d.name # None THEN d.name ELSE Str(<<>>)

\* separate_operations_get that files the fragment definitions in the dict too.
separate_operations_get_AnyDefinition(doc, operation_name) ==
    LET defs == doc.definitions
        at == {i \in 1..Len(defs) : OperationKey(defs[i]) = operation_name}
    IN  IF at = {} THEN None ELSE Separated(defs, Last(at))

\* separate_operations(ast).get(operation_name, None): a later operation with
\* the same key replaces an earlier one.
separate_operations_get(doc, operation_name) ==
    LET defs == doc.definitions
        at == {i \in 1..Len(defs) :
                  IsOperation(defs[i]) /\ OperationKey(defs[i]) = operation_name}
    IN  IF at = {} THEN None ELSE Separated(defs, Last(at))

(* ----------------------------- the passes ----------------------------- *)

SameRef == [ref |-> "ast"]

\* The call `name` made: r is what the traversal of ast gave, the document as
\* it was mutated and the exception if one was raised.
Visited(name, r) ==
    /\ calls < MaxCalls
    /\ calls' = calls + 1
    /\ before' = ast
    /\ op' = name
    /\ arg' = None
    /\ ast' = r.val
    /\ exc' = r.exc
    /\ ret' = IF r.exc = None THEN SameRef ELSE None

\* A pass of the form `visit(ast, V); return ast`.
VisitPass(name, visitor) == Visited(name, visit(ast, visitor))

hide_literals == VisitPass("hide_literals", "_HIDE_LITERALS_VISITOR")

hide_string_and_numeric_literals ==
    VisitPass("hide_string_and_numeric_literals",
              "_HIDE_ONLY_STRING_AND_NUMERIC_LITERALS_VISITOR")

remove_aliases == VisitPass("remove_aliases", "_REMOVE_ALIAS_VISITOR")

sort_ast == VisitPass("sort_ast", "_SORTING_VISITOR")

(* -------------------- print_with_reduced_whitespace ------------------- *)

\* The text print_with_reduced_whitespace makes of the printed document.
ReduceWhitespace(printed) ==
    LET val == Sub("drop_space_before",
                   Sub("drop_space_after", Sub("collapse", printed)))
        r == Scan("from_hex", val, 1, Len(val), ScanStart)
    IN  IF r.st.exc # None THEN Raise(<<>>, r.st.exc) ELSE Ok(r.out)

\* The call made: hexed is the document after line 93, val the text.
Printed(hexed, val) ==
    /\ calls < MaxCalls
    /\ calls' = calls + 1
    /\ before' = ast
    /\ op' = "print_with_reduced_whitespace"
    /\ arg' = None
    /\ ast' = hexed
    /\ exc' = val.exc
    /\ ret' = IF val.exc = None THEN Str(val.val) ELSE None

PrintHexed(hexed) == Printed(hexed, ReduceWhitespace(print_ast(hexed)))

\* The string values of the document are left hex-encoded.
print_with_reduced_whitespace ==
    PrintHexed(visit(ast, "_HEX_CONVERSION_VISITOR").val)

\* The operation_name arguments tried: None, "", "A", "B" and "F".
OperationNames ==
    {None, Str(<<>>), Str(<<65>>), Str(<<66>>), Str(<<70>>)}

\* A DocumentNode is always truthy, so `if not separated` is the dict miss.
drop_unused_definitions ==
    \E operation_name \in OperationNames :
        LET separated == separate_operations_get(ast, operation_name)
        IN  /\ calls < MaxCalls
            /\ calls' = calls + 1
            /\ before' = ast
            /\ op' = "drop_unused_definitions"
            /\ arg' = operation_name
            /\ exc' = None
            /\ IF separated = None
               THEN ast' = ast /\ ret' = SameRef
               ELSE ast' = separated /\ ret' = [ref |-> "separated"]

(* ------------------------------ documents ----------------------------- *)

\* Bound on the length of the string values of PrintDocs.
MaxStrLen == 2

\* Names, as code points: "a", "b", "x", "y", "A", "B", "F", "G", "H", "S", "T".
Na == <<97>>
Nb == <<98>>
Nx == <<120>>
Ny == <<121>>
NA == <<65>>
NB == <<66>>
NF == <<70>>
NG == <<71>>
NH == <<72>>
NS == <<83>>
NT == <<84>>

Leaf(n) == Field(None, n, <<>>, <<>>, None)
Int1 == IntValue(<<49>>)
Int2 == IntValue(<<50>>)

\* Documents with literals: 42, 1.5, "s", R, true, null, $a, [1, 2],
\* [R, "s"], {a: 1}, {a: [1.5]} as argument values, default values and
\* directive arguments.
Values ==
    { IntValue(<<52, 50>>), FloatValue(<<49, 46, 53>>), StringValue(<<115>>),
      EnumValue(<<82>>), BooleanValue(TRUE), NullValue, Variable(Na),
      ListValue(<<Int1, Int2>>),
      ListValue(<<EnumValue(<<82>>), StringValue(<<115>>)>>),
      ObjectValue(<<ObjectField(Na, Int1)>>),
      ObjectValue(<<ObjectField(Na, ListValue(<<FloatValue(<<49, 46, 53>>)>>))>>) }

MaskDocs ==
    { Document(<<OperationDefinition(None, <<>>, <<>>,
          <<Field(None, Na, <<Argument(Na, v1), Argument(Nb, v2)>>, <<>>, None)>>)>>)
      : v1 \in Values, v2 \in Values }
    \cup
    { Document(<<OperationDefinition(Str(NA), <<VariableDefinition(Na, NT, v)>>, <<>>,
          <<Field(None, Na, <<>>, <<Directive(Na, <<Argument(Na, v)>>)>>, None)>>)>>)
      : v \in Values \ {Variable(Na)} }

\* Documents with aliases on a field of an operation, on a nested field, in an
\* inline fragment and in a fragment definition.
Aliases == {None, Str(Nx), Str(Ny)}

AliasDocs ==
    { Document(<<
        OperationDefinition(Str(NA), <<>>, <<>>,
          <<Field(al1, Na, <<>>, <<>>,
                  SelectionSet(<<Field(al2, Nb, <<>>, <<>>, None),
                                 InlineFragment(NamedType(NT), <<>>,
                                   <<Field(al3, Na, <<Argument(Na, Int1)>>, <<>>, None)>>)>>)),
            FragmentSpread(NF, <<>>)>>),
        FragmentDefinition(NF, NT, <<>>, <<Field(al4, Nb, <<>>, <<>>, None)>>)>>)
      : al1 \in Aliases, al2 \in Aliases, al3 \in Aliases, al4 \in Aliases }

\* Documents with two operations (the second one named B or anonymous) and
\* the fragments F and G, which the operations spread directly, through an
\* inline fragment, through one another (also in a cycle) or not at all.
OpSels ==
    { <<Leaf(Na)>>,
      <<FragmentSpread(NF, <<>>)>>,
      <<Field(None, Na, <<>>, <<>>,
              SelectionSet(<<InlineFragment(NamedType(NT), <<>>,
                                            <<FragmentSpread(NG, <<>>)>>)>>))>> }
FSels == { <<Leaf(Na)>>, <<FragmentSpread(NG, <<>>)>> }
GSels == { <<Leaf(Nb)>>, <<FragmentSpread(NF, <<>>), FragmentSpread(NH, <<>>)>> }

PruneDocs ==
    UNION { LET opA == OperationDefinition(Str(NA), <<>>, <<>>, sA)
                op2 == OperationDefinition(n2, <<>>, <<>>, s2)
                fF == FragmentDefinition(NF, NT, <<>>, sF)
                fG == FragmentDefinition(NG, NT, <<>>, sG)
            IN  { Document(<<opA, op2, fF, fG>>), Document(<<fG, op2, fF, opA>>) }
          : sA \in OpSels, s2 \in OpSels, n2 \in {Str(NB), None},
            sF \in FSels, sG \in GSels }

\* Documents whose sibling lists are out of order: selections (fields with
\* arguments and directives, fields of one name under two aliases, fragment
\* spreads, inline fragments with and without a type condition, with and
\* without directives), and definitions (anonymous and named operations,
\* variable definitions, fragments with directives).
DirA == Directive(Na, <<Argument(Nb, Int1), Argument(Na, Int2)>>)
DirB == Directive(Nb, <<>>)

SortSelections ==
    { Leaf(Nb),
      Field(Str(Nx), Na, <<Argument(Nb, Int1), Argument(Na, Int2)>>,
            <<DirB, DirA>>, None),
      Field(Str(Ny), Na, <<>>, <<>>, SelectionSet(<<Leaf(Nb), Leaf(Na)>>)),
      FragmentSpread(NF, <<DirB, DirA>>),
      InlineFragment(None, <<>>, <<Leaf(Na)>>),
      InlineFragment(NamedType(NT), <<>>, <<Leaf(Nb), Leaf(Na)>>),
      InlineFragment(NamedType(NS), <<DirB, DirA>>, <<Leaf(Na)>>) }

SortDefinitions ==
    { OperationDefinition(None, <<>>, <<>>, <<Leaf(Na)>>),
      OperationDefinition(Str(NA), <<>>, <<>>, <<Leaf(Na)>>),
      OperationDefinition(Str(NB),
          <<VariableDefinition(Nb, NT, None), VariableDefinition(Na, NT, None)>>,
          <<DirB, DirA>>, <<Leaf(Nb), Leaf(Na)>>),
      FragmentDefinition(NG, NT, <<DirB, DirA>>, <<Leaf(Nb), Leaf(Na)>>),
      FragmentDefinition(NF, NT, <<>>, <<Leaf(Na)>>) }

\* The sequences of one to n different elements of S.
Arrangements(S, n) ==
    UNION { {q \in [1..m -> S] : \A i, j \in 1..m : i # j => q[i] # q[j]}
            : m \in 1..n }

SortDocs ==
    { Document(<<OperationDefinition(Str(NA), <<>>, <<>>, sels)>>)
      : sels \in Arrangements(SortSelections, 2) }
    \cup
    { Document(defs) : defs \in Arrangements(SortDefinitions, 3) \
                                    Arrangements(SortDefinitions, 1) }

\* Documents with string values of up to MaxStrLen characters among
\* "a", " ", '"', "\" and U+00E9, alone or two in a list.
Chars == {97, 32, 34, 92, 233}
Strings == UNION { [1..n -> Chars] : n \in 0..MaxStrLen }

PrintDocs ==
    { Document(<<OperationDefinition(None, <<>>, <<>>,
          <<Field(None, Na, <<Argument(Na, StringValue(s))>>, <<>>, None)>>)>>)
      : s \in Strings }
    \cup
    { Document(<<OperationDefinition(Str(NA), <<>>, <<>>,
          <<Field(Str(Nx), Na,
                  <<Argument(Na, ListValue(<<StringValue(s1), StringValue(s2)>>))>>,
                  <<>>, None),
            Leaf(Nb)>>)>>)
      : s1 \in [1..1 -> Chars], s2 \in [1..1 -> Chars] }

Start(docs) ==
    /\ ast \in docs
    /\ before = ast
    /\ op = "init"
    /\ arg = None
    /\ ret = None
    /\ exc = None
    /\ calls = 0

Next ==
    \/ hide_literals
    \/ hide_string_and_numeric_literals
    \/ remove_aliases
    \/ sort_ast
    \/ drop_unused_definitions
    \/ print_with_reduced_whitespace

InitMask == Start(MaskDocs)
SpecMask == InitMask /\ [][Next]_vars

InitAlias == Start(AliasDocs)
SpecAlias == InitAlias /\ [][Next]_vars

InitPrune == Start(PruneDocs)
SpecPrune == InitPrune /\ [][Next]_vars

InitSort == Start(SortDocs)
SpecSort == InitSort /\ [][Next]_vars

InitPrint == Start(PrintDocs)
SpecPrint == InitPrint /\ [][Next]_vars

Init == Start(MaskDocs \cup AliasDocs \cup PruneDocs \cup SortDocs \cup PrintDocs)
Spec == Init /\ [][Next]_vars

(* ======================= properties of the passes ===================== *)

RECURSIVE Flatten(_)
Flatten(seqs) == IF seqs = <<>> THEN <<>> ELSE Head(seqs) \o Flatten(Tail(seqs))

\* Every node of a tree, parents before children, siblings in order.
RECURSIVE AllNodes(_)
AllNodes(node) ==
    LET cs == Children(node)
    IN  <<node>> \o Flatten([i \in 1..Len(cs) |-> AllNodes(cs[i])])

\* A node without its subtrees: each list attribute replaced by its length,
\* every other child by whether it is there.  The sequence of the shallow
\* nodes of a tree determines the tree.
RECURSIVE ShallowFrom(_, _, _)
ShallowFrom(node, keys, i) ==
    IF i > Len(keys) THEN node
    ELSE LET k == keys[i]
             c == node[k.key]
         IN  ShallowFrom([node EXCEPT ![k.key] =
                             IF k.list THEN PyInt(Len(c))
                             ELSE PyBool(c # None)],
                         keys, i + 1)

Shallow(node) == ShallowFrom(node, VisitorKeys(node.kind), 1)
ShallowNodes(node) ==
    LET ns == AllNodes(node) IN [i \in 1..Len(ns) |-> Shallow(ns[i])]

KindsIn(node) == LET ns == AllNodes(node) IN {ns[i].kind : i \in 1..Len(ns)}
NodesOfKind(node, kind) ==
    LET ns == AllNodes(node) IN SelectSeq(ns, LAMBDA n : n.kind = kind)

(* ------------------------- literal masking (C3, C4) ------------------- *)

IsMasked(n) ==
    CASE n.kind \in {"IntValueNode", "FloatValueNode"} -> n.value = PyInt(0)
      [] n.kind = "StringValueNode" -> n.value = Str(<<>>)
      [] n.kind = "ListValueNode" -> n.values = <<>>
      [] n.kind = "ObjectValueNode" -> n.fields = <<>>
      [] OTHER -> TRUE

\* The enum values of a tree in order; with inComposites = FALSE, those that
\* are not inside a list or an object literal.
RECURSIVE EnumValues(_, _)
EnumValues(node, inComposites) ==
    IF node.kind = "EnumValueNode" THEN <<node.value>>
    ELSE IF ~inComposites /\ node.kind \in {"ListValueNode", "ObjectValueNode"}
        THEN <<>>
    ELSE LET cs == Children(node)
         IN  Flatten([i \in 1..Len(cs) |-> EnumValues(cs[i], inComposites)])

\* C3: after hide_literals every int and float literal of the document is 0,
\* every string literal is "", every list literal and object literal is empty,
\* and the enum values (those the emptied lists and objects did not hold) are
\* as before; after hide_string_and_numeric_literals every enum value is as
\* before.  Both return the document they were given.
C3_HideLiteralsMasks ==
    /\ op = "hide_literals" =>
           /\ exc = None /\ ret = SameRef
           /\ LET ns == AllNodes(ast) IN \A i \in 1..Len(ns) : IsMasked(ns[i])
           /\ EnumValues(ast, TRUE) = EnumValues(before, FALSE)
    /\ op = "hide_string_and_numeric_literals" =>
           /\ exc = None /\ ret = SameRef
           /\ EnumValues(ast, TRUE) = EnumValues(before, TRUE)

\* A document with an enum value beside a list of literals was masked in full
\* mode.
C3_Witness ==
    /\ op = "hide_literals"
    /\ EnumValues(before, FALSE) # <<>>
    /\ \E n \in {NodesOfKind(before, "ListValueNode")[i] :
                    i \in 1..Len(NodesOfKind(before, "ListValueNode"))} :
           n.values # <<>>
    /\ {"FloatValueNode", "StringValueNode"} \cap KindsIn(before) # {}

Composites(node) ==
    SelectSeq(AllNodes(node),
              LAMBDA n : n.kind \in {"ListValueNode", "ObjectValueNode"})

\* C4 as claimed: hide_string_and_numeric_literals leaves every list literal
\* and object literal as written, the values inside it included.
C4_CompositesAsWritten ==
    op = "hide_string_and_numeric_literals" =>
        Composites(ast) = Composites(before)

\* What string-and-numeric-only masking makes of a shallow node.
MaskedScalar(n) ==
    IF n.kind \in {"IntValueNode", "FloatValueNode"}
        THEN [n EXCEPT !.value = PyInt(0)]
    ELSE IF n.kind = "StringValueNode" THEN [n EXCEPT !.value = Str(<<>>)]
    ELSE n

\* C4, amended: hide_string_and_numeric_literals masks every int, float and
\* string literal wherever it occurs, inside list and object literals too;
\* list and object literals keep their length and their field names, and
\* every other node is as before.
C4_MasksNestedScalars ==
    op = "hide_string_and_numeric_literals" =>
        /\ exc = None
        /\ LET bs == ShallowNodes(before)
           IN  ShallowNodes(ast) = [i \in 1..Len(bs) |-> MaskedScalar(bs[i])]

\* A document with an unmasked number inside a list was masked in
\* string-and-numeric-only mode.
C4_Witness ==
    /\ op = "hide_string_and_numeric_literals"
    /\ LET cs == Composites(before)
       IN  \E i \in 1..Len(cs) :
               /\ cs[i].kind = "ListValueNode"
               /\ \E j \in 1..Len(cs[i].values) :
                      /\ cs[i].values[j].kind = "IntValueNode"
                      /\ cs[i].values[j].value # PyInt(0)
    /\ "ObjectValueNode" \in KindsIn(ast)

(* --------------------------- aliases (C9) ----------------------------- *)

WithoutAlias(n) == IF n.kind = "FieldNode" THEN [n EXCEPT !.alias = None] ELSE n

\* C9: after remove_aliases no field of the document has an alias, whether in
\* an operation, a fragment definition, an inline fragment or a nested
\* selection set; every other attribute of every node is as before; and a
\* second remove_aliases changes nothing.
C9_RemoveAliases ==
    op = "remove_aliases" =>
        /\ exc = None /\ ret = SameRef
        /\ LET fs == NodesOfKind(ast, "FieldNode")
           IN  \A i \in 1..Len(fs) : fs[i].alias = None
        /\ LET bs == ShallowNodes(before)
           IN  ShallowNodes(ast) = [i \in 1..Len(bs) |-> WithoutAlias(bs[i])]
        /\ visit(ast, "_REMOVE_ALIAS_VISITOR") = Ok(ast)

\* remove_aliases ran on a document all of whose four fields (top level,
\* nested, in an inline fragment, in a fragment definition) had an alias.
C9_Witness ==
    /\ op = "remove_aliases"
    /\ LET fs == NodesOfKind(before, "FieldNode")
       IN  Len(fs) = 4 /\ \A i \in 1..Len(fs) : fs[i].alias # None

(* ---------------------------- pruning (C1, C2) ------------------------ *)

SpreadNames(node) ==
    LET ns == NodesOfKind(node, "FragmentSpreadNode")
    IN  {ns[i].name.s : i \in 1..Len(ns)}

\* The names of the fragments reachable from the definition at index i by
\* following fragment spreads, in at most Len(defs) rounds.
Reachable(defs, i) ==
    LET R[k \in 0..Len(defs)] ==
            IF k = 0 THEN SpreadNames(defs[i].selection_set)
            ELSE R[k - 1] \cup
                 UNION {SpreadNames(defs[j].selection_set) :
                           j \in {m \in 1..Len(defs) :
                                     IsFragment(defs[m]) /\ defs[m].name.s \in R[k - 1]}}
    IN  R[Len(defs)]

\* The elements of defs at the indices of idx, in order.
Restrict(defs, idx) ==
    LET P[j \in 0..Len(defs)] ==
            IF j = 0 THEN <<>>
            ELSE IF j \in idx THEN Append(P[j - 1], defs[j]) ELSE P[j - 1]
    IN  P[Len(defs)]

OperationsNamed(defs, name) ==
    {i \in 1..Len(defs) : IsOperation(defs[i]) /\ defs[i].name = name}
AnonymousOperations(defs) ==
    {i \in 1..Len(defs) : IsOperation(defs[i]) /\ defs[i].name = None}

\* C1: drop_unused_definitions(D, name), name being the name of an operation
\* of D, returns a document that holds exactly that operation and the
\* fragment definitions reachable from it through fragment spreads, in D's
\* order: no other operation, and no fragment only another operation spreads.
C1_KeepsOperationAndItsFragments ==
    (op = "drop_unused_definitions" /\ arg # None /\ arg # Str(<<>>)
        /\ OperationsNamed(before.definitions, arg) # {}) =>
        LET defs == before.definitions
            i == CHOOSE i \in OperationsNamed(defs, arg) : TRUE
            reach == Reachable(defs, i)
        IN  /\ exc = None
            /\ ast.kind = "DocumentNode"
            /\ ast.definitions =
                   Restrict(defs, {j \in 1..Len(defs) :
                                      j = i \/ (IsFragment(defs[j])
                                                /\ defs[j].name.s \in reach)})

\* Operation A was selected in a document where it reaches a fragment only
\* through another fragment, and where a fragment it does not reach was
\* dropped.
C1_Witness ==
    /\ op = "drop_unused_definitions" /\ arg = Str(NA)
    /\ \E i \in 1..Len(ast.definitions) :
           /\ IsFragment(ast.definitions[i])
           /\ \E j \in 1..Len(ast.definitions) :
                  /\ IsOperation(ast.definitions[j])
                  /\ ast.definitions[i].name.s
                         \notin SpreadNames(ast.definitions[j].selection_set)
    /\ Len(ast.definitions) < Len(before.definitions)

ReturnedUnchanged == exc = None /\ ret = SameRef /\ ast = before

\* C2 as claimed: with an operation_name that no operation of D is named
\* (None included), drop_unused_definitions returns D itself, unchanged.
C2_UnknownNameReturnsDocument ==
    (op = "drop_unused_definitions"
        /\ (arg = None \/ OperationsNamed(before.definitions, arg) = {})) =>
        ReturnedUnchanged

\* C2, amended: with an operation_name that no operation of D is named (None
\* included) and that is not "" when D has an anonymous operation,
\* drop_unused_definitions returns D itself, unchanged.
C2_UnknownKeyReturnsDocument ==
    (op = "drop_unused_definitions"
        /\ (arg = None \/ OperationsNamed(before.definitions, arg) = {})
        /\ ~(arg = Str(<<>>) /\ AnonymousOperations(before.definitions) # {})) =>
        ReturnedUnchanged

\* drop_unused_definitions was called with the name of a fragment, which no
\* operation has.
C2_Witness ==
    /\ op = "drop_unused_definitions" /\ arg = Str(NF)
    /\ \E i \in 1..Len(before.definitions) :
           IsFragment(before.definitions[i]) /\ before.definitions[i].name = arg

(* ----------------------- sorting (C5, C6, C7, C10) ------------------- *)

Perms(n) == {p \in [1..n -> 1..n] : \A i, j \in 1..n : i # j => p[i] # p[j]}

\* The name a sibling is sorted by: a variable definition's variable, an
\* inline fragment's type condition, the name otherwise; None when it has
\* none.
NameKey(n) ==
    IF n.kind = "InlineFragmentNode"
        THEN IF n.type_condition = None THEN None ELSE n.type_condition.name
    ELSE IF n.kind = "VariableDefinitionNode" THEN n.variable.name
    ELSE IF HasAttr(n, "name") THEN n.name
    ELSE None

SortKey(n) == <<n.kind, NameKey(n)>>

\* The list attributes sort_ast sorts, and the ones C6 speaks of.
SortedAttrs ==
    { <<"DocumentNode", "definitions">>,
      <<"OperationDefinitionNode", "variable_definitions">>,
      <<"SelectionSetNode", "selections">>,
      <<"FieldNode", "arguments">>,
      <<"DirectiveNode", "arguments">>,
      <<"FragmentSpreadNode", "directives">>,
      <<"FragmentDefinitionNode", "directives">> }

ClaimedAttrs ==
    { <<"DocumentNode", "definitions">>,
      <<"OperationDefinitionNode", "variable_definitions">>,
      <<"SelectionSetNode", "selections">>,
      <<"FieldNode", "arguments">>,
      <<"OperationDefinitionNode", "directives">>,
      <<"FieldNode", "directives">>,
      <<"FragmentSpreadNode", "directives">>,
      <<"InlineFragmentNode", "directives">>,
      <<"FragmentDefinitionNode", "directives">> }

ListKeys(kind) ==
    LET ks == VisitorKeys(kind)
    IN  {ks[i].key : i \in {j \in 1..Len(ks) : ks[j].list}}
NodeKeys(kind) ==
    LET ks == VisitorKeys(kind)
    IN  {ks[i].key : i \in {j \in 1..Len(ks) : ~ks[j].list}}

\* x is the tree t with sibling lists permuted, the siblings themselves
\* reordered in the same way, and siblings of one sort key left in their
\* order: same nodes under the same parents.
RECURSIVE Reordered(_, _)
Reordered(t, x) ==
    /\ Shallow(t) = Shallow(x)
    /\ \A k \in NodeKeys(t.kind) : t[k] = None \/ Reordered(t[k], x[k])
    /\ \A k \in ListKeys(t.kind) :
           \E p \in Perms(Len(t[k])) :
               /\ \A i \in 1..Len(t[k]) : Reordered(t[k][p[i]], x[k][i])
               /\ \A i, j \in 1..Len(t[k]) :
                      (i < j /\ SortKey(x[k][i]) = SortKey(x[k][j])) => p[i] < p[j]

\* C5: where sort_ast completes, the document is its input with sibling
\* lists permuted (the same children under the same parents, children of
\* equal sort key in their former order), and sorting it again changes
\* nothing.
C5_SortIsStablePermutation ==
    (op = "sort_ast" /\ exc = None) =>
        /\ ret = SameRef
        /\ Reordered(before, ast)
        /\ visit(ast, "_SORTING_VISITOR") = Ok(ast)

\* sort_ast completed and changed a document that has, in one selection set,
\* two different fields of the same name.
C5_Witness ==
    /\ op = "sort_ast" /\ exc = None /\ ast # before
    /\ LET ss == NodesOfKind(before, "SelectionSetNode")
       IN  \E i \in 1..Len(ss) :
               \E j, k \in 1..Len(ss[i].selections) :
                   /\ j < k
                   /\ ss[i].selections[j] # ss[i].selections[k]
                   /\ SortKey(ss[i].selections[j]) = SortKey(ss[i].selections[k])

\* The trees that differ from t only in the order of the siblings of the
\* lists of attrs.
RECURSIVE Variants(_, _), ListVariants(_, _, _), VariantsFrom(_, _, _, _)
ListVariants(list, i, attrs) ==
    IF i > Len(list) THEN {<<>>}
    ELSE {<<v>> \o rest : v \in Variants(list[i], attrs),
                          rest \in ListVariants(list, i + 1, attrs)}
VariantsFrom(t, keys, i, attrs) ==
    IF i > Len(keys) THEN {t}
    ELSE LET k == keys[i]
             c == t[k.key]
             cs == IF ~k.list
                       THEN IF c = None THEN {c} ELSE Variants(c, attrs)
                   ELSE IF <<t.kind, k.key>> \in attrs
                       THEN {[j \in 1..Len(c) |-> l[p[j]]] :
                                l \in ListVariants(c, 1, attrs), p \in Perms(Len(c))}
                   ELSE ListVariants(c, 1, attrs)
         IN  {[n EXCEPT ![k.key] = v] :
                 n \in VariantsFrom(t, keys, i + 1, attrs), v \in cs}
Variants(t, attrs) == VariantsFrom(t, VisitorKeys(t.kind), 1, attrs)

\* C6 as claimed: two documents that differ only in the order of the
\* definitions, variable definitions, selections, field arguments and
\* directive lists are the same document once sorted.
C6_SortCanonicalizes ==
    (op = "sort_ast" /\ exc = None) =>
        \A d \in Variants(before, ClaimedAttrs) :
            visit(d, "_SORTING_VISITOR") = Ok(ast)

\* No two siblings of a list that sort_ast sorts have the same sort key.
DistinctKeys(t) ==
    LET ns == AllNodes(t)
    IN  \A i \in 1..Len(ns) :
            \A k \in ListKeys(ns[i].kind) :
                <<ns[i].kind, k>> \in SortedAttrs =>
                    \A j, m \in 1..Len(ns[i][k]) :
                        j # m => SortKey(ns[i][k][j]) # SortKey(ns[i][k][m])

\* C6, amended: two documents that differ only in the order of the
\* definitions, variable definitions, selections, field arguments, directive
\* arguments and the directives of fragment spreads and fragment definitions
\* (not those of fields, operations and inline fragments), and in which the
\* siblings of each of these lists have different sort keys, are the same
\* document once sorted, or sort_ast raises on both.
C6_SortCanonicalizesSortedLists ==
    (op = "sort_ast" /\ DistinctKeys(before)) =>
        \A d \in Variants(before, SortedAttrs) :
            LET r == visit(d, "_SORTING_VISITOR")
            IN  IF exc = None THEN r = Ok(ast) ELSE r.exc # None

\* sort_ast completed on a document with different sort keys throughout, of
\* which another order exists, and changed it.
C6_Witness ==
    /\ op = "sort_ast" /\ exc = None /\ ast # before
    /\ DistinctKeys(before)
    /\ Cardinality(Variants(before, SortedAttrs)) > 2

\* Some definitions or selections of one class are siblings, one with a name
\* (for an inline fragment: a type condition) and one without.
MixedNameless(t) ==
    LET ns == AllNodes(t)
    IN  \E i \in 1..Len(ns) :
            \E k \in ListKeys(ns[i].kind) \cap {"definitions", "selections"} :
                \E j, m \in 1..Len(ns[i][k]) :
                    /\ ns[i][k][j].kind = ns[i][k][m].kind
                    /\ NameKey(ns[i][k][j]) = None
                    /\ NameKey(ns[i][k][m]) # None

HasInlineFragmentDirectives(t) ==
    LET fs == NodesOfKind(t, "InlineFragmentNode")
    IN  \E i \in 1..Len(fs) : fs[i].directives # <<>>

\* A sibling's (class name, name), a missing name counting as "".
KeyWithEmptyName(n) ==
    [ty |-> "tuple", cls |-> ClassName(n.kind),
     name |-> IF NameKey(n) = None THEN Str(<<>>) ELSE NameKey(n)]

InOrder(list, KeyFn(_)) ==
    \A i \in 1..(Len(list) - 1) : ~PyLess(KeyFn(list[i + 1]), KeyFn(list[i])).val

\* C7 as claimed: sort_ast completes on a document that mixes an anonymous
\* operation with named ones, or an inline fragment without a type condition
\* with ones that have one, and orders the nameless sibling as if its name
\* were "".
C7_NamelessSiblingsSorted ==
    (op = "sort_ast" /\ MixedNameless(before)
        /\ ~HasInlineFragmentDirectives(before)) =>
        /\ exc = None
        /\ LET ns == AllNodes(ast)
           IN  \A i \in 1..Len(ns) :
                   \A k \in ListKeys(ns[i].kind) \cap {"definitions", "selections"} :
                       InOrder(ns[i][k], KeyWithEmptyName)

\* C10 as claimed: sort_ast completes on a document in which an inline
\* fragment has directives, and leaves them ordered by name.
C10_InlineFragmentDirectivesSorted ==
    (op = "sort_ast" /\ HasInlineFragmentDirectives(before)
        /\ ~MixedNameless(before)) =>
        /\ exc = None
        /\ LET fs == NodesOfKind(ast, "InlineFragmentNode")
           IN  \A i \in 1..Len(fs) : InOrder(fs[i].directives, NameKey)

(* --------------------------- printing (C8) --------------------------- *)

\* The GraphQL lexer, for reading the printed text back: the tokens of t
\* from position i, or the syntax error.  Commas and white space separate
\* tokens; a string ends at the first double quote that no backslash
\* precedes, and holds no line terminator; three double quotes open a block
\* string, which here is never over several lines.
SyntaxError == [ty |-> "GraphQLSyntaxError"]
Token(kind, value) == [kind |-> kind, value |-> value]
Read(value, next) == [exc |-> None, val |-> value, next |-> next]
ReadError == [exc |-> SyntaxError, val |-> <<>>, next |-> 0]

IsNameStart(c) == c = 95 \/ c \in 65..90 \/ c \in 97..122
IsDigit(c) == c \in 48..57
IsPunctuator(c) == c \in {33, 36, 38, 40, 41, 58, 61, 64, 91, 93, 123, 124, 125}
IsIgnored(c) == c \in {9, 10, 13, 32, 44, 65279}
IsAnyHex(c) == IsDigit(c) \/ c \in 65..70 \/ c \in 97..102
AnyHexValue(c) == IF IsDigit(c) THEN c - 48 ELSE IF c >= 97 THEN c - 87 ELSE c - 55
At(t, i, c) == i <= Len(t) /\ t[i] = c

RECURSIVE RunEnd(_, _, _)
RunEnd(t, i, names) ==
    IF i <= Len(t) /\ (IsDigit(t[i]) \/ (names /\ IsNameStart(t[i])))
        THEN RunEnd(t, i + 1, names)
    ELSE i - 1

Escaped(c) ==
    CASE c = 34 -> 34 [] c = 92 -> 92 [] c = 47 -> 47 [] c = 98 -> 8
      [] c = 102 -> 12 [] c = 110 -> 10 [] c = 114 -> 13 [] c = 116 -> 9
      [] OTHER -> -1

RECURSIVE ReadString(_, _, _)
ReadString(t, i, acc) ==
    IF i > Len(t) THEN ReadError
    ELSE IF t[i] = 34 THEN Read(acc, i + 1)
    ELSE IF t[i] < 32 /\ t[i] # 9 THEN ReadError
    ELSE IF t[i] # 92 THEN ReadString(t, i + 1, Append(acc, t[i]))
    ELSE IF i = Len(t) THEN ReadError
    ELSE IF t[i + 1] = 117
        THEN IF i + 5 <= Len(t) /\ \A k \in 2..5 : IsAnyHex(t[i + k])
                 THEN ReadString(t, i + 6,
                          Append(acc, 4096 * AnyHexValue(t[i + 2])
                                      + 256 * AnyHexValue(t[i + 3])
                                      + 16 * AnyHexValue(t[i + 4])
                                      + AnyHexValue(t[i + 5])))
             ELSE ReadError
    ELSE IF Escaped(t[i + 1]) < 0 THEN ReadError
    ELSE ReadString(t, i + 2, Append(acc, Escaped(t[i + 1])))

RECURSIVE ReadBlockString(_, _, _)
ReadBlockString(t, i, acc) ==
    IF i > Len(t) THEN ReadError
    ELSE IF At(t, i, 34) /\ At(t, i + 1, 34) /\ At(t, i + 2, 34)
        THEN Read(acc, i + 3)
    ELSE IF At(t, i, 92) /\ At(t, i + 1, 34) /\ At(t, i + 2, 34) /\ At(t, i + 3, 34)
        THEN ReadBlockString(t, i + 4, acc \o <<34, 34, 34>>)
    ELSE ReadBlockString(t, i + 1, Append(acc, t[i]))

ReadToken(t, i) ==
    LET c == t[i]
    IN  IF IsPunctuator(c) THEN Read(Token("Punctuator", <<c>>), i + 1)
        ELSE IF c = 46
            THEN IF At(t, i + 1, 46) /\ At(t, i + 2, 46)
                     THEN Read(Token("Punctuator", <<46, 46, 46>>), i + 3)
                 ELSE ReadError
        ELSE IF IsNameStart(c)
            THEN LET j == RunEnd(t, i, TRUE)
                 IN  Read(Token("Name", SubSeq(t, i, j)), j + 1)
        ELSE IF IsDigit(c)
            THEN LET j == RunEnd(t, i, FALSE)
                     float == At(t, j + 1, 46) /\ j + 2 <= Len(t) /\ IsDigit(t[j + 2])
                     k == IF float THEN RunEnd(t, j + 2, FALSE) ELSE j
                 IN  IF (k < Len(t) /\ (IsNameStart(t[k + 1]) \/ t[k + 1] = 46))
                         \/ (c = 48 /\ j > i)
                         THEN ReadError
                     ELSE Read(Token(IF float THEN "Float" ELSE "Int",
                                     SubSeq(t, i, k)), k + 1)
        ELSE IF c = 34
            THEN LET r == IF At(t, i + 1, 34) /\ At(t, i + 2, 34)
                              THEN ReadBlockString(t, i + 3, <<>>)
                          ELSE ReadString(t, i + 1, <<>>)
                 IN  IF r.exc # None THEN r
                     ELSE Read(Token("String", r.val), r.next)
        ELSE ReadError

\* The first position from i on that holds more than a separator.
NextSignificant(t, i) ==
    LET S == {j \in i..Len(t) : ~IsIgnored(t[j])}
    IN  IF S = {} THEN Len(t) + 1 ELSE CHOOSE j \in S : \A k \in S : j <= k

RECURSIVE Lex(_, _)
Lex(t, i) ==
    LET n == NextSignificant(t, i)
    IN  IF n > Len(t) THEN Ok(<<>>)
        ELSE LET r == ReadToken(t, n)
             IN  IF r.exc # None THEN Raise(<<>>, r.exc)
                 ELSE LET rest == Lex(t, r.next)
                      IN  IF rest.exc # None THEN rest
                          ELSE Ok(<<r.val>> \o rest.val)

\* The tokens with the string values left out, and the string values.
Skeleton(tokens) ==
    [i \in 1..Len(tokens) |->
        IF tokens[i].kind = "String" THEN Token("String", <<>>) ELSE tokens[i]]
StringsOf(tokens) ==
    LET RECURSIVE From(_)
        From(i) == IF i > Len(tokens) THEN <<>>
                   ELSE IF tokens[i].kind = "String"
                       THEN <<tokens[i].value>> \o From(i + 1)
                   ELSE From(i + 1)
    IN  From(1)
StringValues(doc) ==
    LET ns == NodesOfKind(doc, "StringValueNode")
    IN  [i \in 1..Len(ns) |-> ns[i].value.s]

\* C8 as claimed: the text print_with_reduced_whitespace returns reads back
\* as the document it was given: it is GraphQL, its tokens are those of the
\* document, and its string literals carry, in order, the values the
\* document's string literals had before the call.
C8_PrintRoundTrips ==
    op = "print_with_reduced_whitespace" =>
        /\ exc = None
        /\ LET l == Lex(ret.s, 1)
           IN  /\ l.exc = None
               /\ Skeleton(l.val) = Skeleton(Lex(print_ast(ast), 1).val)
               /\ StringsOf(l.val) = StringValues(before)

=============================================================================
